---- MODULE Spec2Model ----
(***************************************************************************)
(* The dialogue orchestrator of backend/agents/communication_agent.py      *)
(* (CommunicationAgent: invoke, the five stage handlers, the router and    *)
(* the conditional edges of its graph) together with the policy            *)
(* recommender of backend/agents/policy_recommendation_agent.py.           *)
(*                                                                         *)
(* One client is modelled.  A turn is one call of CommunicationAgent.invoke;*)
(* it is split into the step that receives the message (Invoke), one step  *)
(* per stage handler the graph runs (each followed at once by the router   *)
(* and the edge lookup), and the step that ends the turn (InvokeReturn on  *)
(* a normal end of the graph, InvokeExcept when the graph raised).         *)
(*                                                                         *)
(* Texts are modelled by the features the code reads from them: which of   *)
(* the searched phrases they contain, and which JSON block they carry.     *)
(***************************************************************************)
EXTENDS Integers, Sequences, FiniteSets, TLC

\* ---------------------------------------------------------------- bounds

\* Turns a client takes while the text-generation port is the live model.
MaxTurns == 2
\* Turns a client takes while the port is stubbed to answer with plain text.
MaxStubTurns == 52
\* Model calls of the handlers, over a conversation, that answer with anything
\* but the plain reply (a reply holding a searched phrase or a JSON block, or a
\* failure of the call).
MaxEvents == 1

\* ------------------------------------------------------ program constants

\* router: "if state.get('step_count', 0) > 20: return END"
StepCeiling == 20
\* router: "if len(messages) > 10"
LoopThreshold == 10

Absent == "absent"
END == "__end__"

Stages ==
    {"greeting", "collecting_info", "policy_selection", "recommendation",
     "followup", "completed"}

\* the keys both has_basic_info tests read
RequiredFields == {"age", "gender", "smoking", "health"}
\* keys collect_info copies from the model's JSON ("name" stands for the
\* optional keys name, occupation, income)
ProfileKeys == RequiredFields \cup {"name"}
\* keys policy_selection copies from the model's JSON ("term_length" stands
\* for the optional keys term_length, sub_type)
PolicyKeys == {"policy_type", "coverage_amount", "term_length"}

EmptyDict(keys) == [k \in keys |-> Absent]
IsEmpty(d) == \A k \in DOMAIN d : d[k] = Absent
\* dict.update / item assignment: the keys of new that are present overwrite
Update(d, new) == [k \in DOMAIN d |-> IF new[k] # Absent THEN new[k] ELSE d[k]]

has_basic_info(user_info) == \A k \in RequiredFields : user_info[k] # Absent
has_policy_info(policy_details) ==
    /\ policy_details["policy_type"] # Absent
    /\ policy_details["coverage_amount"] # Absent

\* ------------------------------------------------------------------ texts

\* What the user may type.
UserTexts == {"hi", "please suggest a plan", "thank you"}
\* What the model may answer in prose.
ReplyTexts ==
    {"how can i help", "thank you for your time", "a term life plan of 30 lakh"}
PlainReply == "how can i help"

\* router: any(phrase in last_message for phrase in recommendation_phrases)
IsRecommendationRequest(text) == text \in {"please suggest a plan"}
\* followup: "thank you" in content.lower() or "goodbye" in content.lower()
HasClosing(text) == text \in {"thank you", "thank you for your time"}
\* collect_info: the policy type the words of the text select
PolicyTypeIn(text) ==
    IF text = "a term life plan of 30 lakh" THEN "Term Life" ELSE Absent
\* collect_info: the coverage pattern of the text
CoverageIn(text) ==
    IF text = "a term life plan of 30 lakh" THEN "set" ELSE Absent

\* ------------------------------------------------- specialist collaborators

None == [none |-> TRUE]

AVAILABLE_POLICIES ==
    << [name |-> "Term Life Insurance - 10 Years", type |-> "Life"],
       [name |-> "Term Life Insurance - 20 Years", type |-> "Life"],
       [name |-> "Whole Life Insurance", type |-> "Life"],
       [name |-> "Universal Life Insurance", type |-> "Life"],
       [name |-> "HMO Health Insurance", type |-> "Health"],
       [name |-> "PPO Health Insurance", type |-> "Health"],
       [name |-> "HDHP with HSA", type |-> "Health"],
       [name |-> "Critical Illness Insurance", type |-> "Health"] >>

CatalogueNames == {AVAILABLE_POLICIES[i].name : i \in 1..Len(AVAILABLE_POLICIES)}

SubstitutionNote ==
    "The originally recommended policy was not found in the available policies. A default policy has been selected."
DefaultNote ==
    "Please consult with an insurance advisor for a more personalized recommendation."

\* What the model may answer to the recommender's prompt:
\*   json         an object whose recommended_policy object has a name
\*   json_no_rec  an object without recommended_policy
\*   json_no_name an object whose recommended_policy has no name
\*   text         text json.loads rejects
RecommenderNames ==
    {"Term Life Insurance - 10 Years", "Whole Life Insurance",
     "Critical Illness Insurance", "Platinum Shield Plan"}
RecommenderNotes == {"review yearly"}
RecommenderResponses ==
    [kind : {"json"}, name : RecommenderNames, additional_notes : RecommenderNotes]
        \cup {[kind |-> k, name |-> Absent, additional_notes |-> Absent] :
                 k \in {"json_no_rec", "json_no_name", "text"}}

\* recommend_policy, "except Exception": the default recommendation
default_recommendation ==
    [name |-> AVAILABLE_POLICIES[2].name, additional_notes |-> DefaultNote]

\* any(p["name"] == recommended_policy_name for p in AVAILABLE_POLICIES)
InCatalogue(name) ==
    \E i \in 1..Len(AVAILABLE_POLICIES) : AVAILABLE_POLICIES[i].name = name

\* Faulty variant of recommend_policy: the catalogue check is left out
recommend_policy_unchecked(response) ==
    IF response.kind = "json"
    THEN [name |-> response.name, additional_notes |-> response.additional_notes]
    ELSE default_recommendation

\* Faulty variant of recommend_policy: an invented name is replaced by the
\* first entry, but the model's own notes are kept
recommend_policy_silent(response) ==
    IF response.kind = "json"
    THEN [name |-> IF InCatalogue(response.name) THEN response.name
                   ELSE AVAILABLE_POLICIES[1].name,
          additional_notes |-> response.additional_notes]
    ELSE default_recommendation

\* recommend_policy: the policy_recommendation built from the model's answer
\* (recommended_policy.name and additional_notes; the other fields are the
\* model's and are not read by any decision)
recommend_policy(response) ==
    IF response.kind = "json"
    THEN IF ~InCatalogue(response.name)
         THEN [name |-> AVAILABLE_POLICIES[1].name,
               additional_notes |-> SubstitutionNote]
         ELSE [name |-> response.name,
               additional_notes |-> response.additional_notes]
    ELSE default_recommendation

\* What the model may answer the risk prompt with: a JSON object, JSON that
\* is no object (json.loads accepts it, .get on it raises inside the try),
\* or text json.loads rejects.
RiskResponses == {"json", "json_not_object", "text"}
Unparsable == {"json_not_object", "text"}

\* Faulty variant of assess_risk: the default assessment names no factor
assess_risk_without_factor(response) ==
    IF response = "json"
    THEN [risk_score |-> 35, risk_factors |-> <<"age">>]
    ELSE [risk_score |-> 50, risk_factors |-> <<>>]

\* assess_risk: the model's object, or the default when parsing fails
assess_risk(response) ==
    IF response = "json"
    THEN [risk_score |-> 35, risk_factors |-> <<"age">>]
    ELSE [risk_score |-> 50, risk_factors |-> <<"Unable to parse assessment">>]

\* calculate_premium: whatever json.loads returned (an object, or a value
\* that is no object), or the default when parsing fails.  Amounts are in
\* hundredths (83.33 is 8333).
PremiumResponses == {"json", "json_not_object", "text"}

\* the breakdown of a premium, in hundredths
Breakdown(base, risk, riders, fees) ==
    [base_premium |-> base, risk_adjustment |-> risk, rider_costs |-> riders,
     other_fees |-> fees]

\* calculate_premium, "default_premium"
default_premium ==
    [object |-> TRUE, annual_premium |-> 100000, monthly_premium |-> 8333,
     breakdown |-> Breakdown(80000, 15000, 5000, 0)]

\* Faulty variant of calculate_premium: the default is derived from nothing
\* and charges nothing
calculate_premium_free_default(response) ==
    CASE response = "json" ->
           [object |-> TRUE, annual_premium |-> 120000, monthly_premium |-> 10000,
            breakdown |-> Breakdown(100000, 10000, 10000, 0)]
      [] response = "json_not_object" ->
           [object |-> FALSE, annual_premium |-> 0, monthly_premium |-> 0,
            breakdown |-> Breakdown(0, 0, 0, 0)]
      [] OTHER ->
           [object |-> TRUE, annual_premium |-> 0, monthly_premium |-> 0,
            breakdown |-> Breakdown(0, 0, 0, 0)]

calculate_premium(response) ==
    CASE response = "json" ->
           [object |-> TRUE, annual_premium |-> 120000, monthly_premium |-> 10000,
            breakdown |-> Breakdown(100000, 10000, 10000, 0)]
      [] response = "json_not_object" ->
           [object |-> FALSE, annual_premium |-> 0, monthly_premium |-> 0,
            breakdown |-> Breakdown(0, 0, 0, 0)]
      [] OTHER -> default_premium

\* One run of the chain: what each of the three model calls gave.  A call
\* that raised is "fail"; a call after one that raised is not made.
Fail == "fail"
NotCalled == "not_called"
NoResponse(k) == [kind |-> k, name |-> Absent, additional_notes |-> Absent]
Chain(r, p, q) == [risk |-> r, premium |-> p, policy |-> q]
ChainOutcomes ==
    {Chain(Fail, NotCalled, NoResponse(NotCalled)),
     Chain("json", Fail, NoResponse(NotCalled)),
     Chain("json", "json", NoResponse(Fail)),
     Chain("json", "json_not_object", NoResponse("text")),
     Chain("text", "text", NoResponse("text"))}
      \cup {Chain("json", "json", q) : q \in RecommenderResponses}

ChainRaised(c) == c.risk = Fail \/ c.premium = Fail \/ c.policy.kind = Fail

\* PolicyRecommendationAgent.invoke: the result it returns when no call raised
PolicyAgentInvoke(c) ==
    [risk_assessment |-> assess_risk(c.risk),
     premium_calculation |-> calculate_premium(c.premium),
     policy_recommendation |-> recommend_policy(c.policy)]

\* ------------------------------------------------------- the model's replies

\* The JSON block of a reply, as the handlers' two regular expressions and
\* json.loads see it: no block, a block json.loads rejects, or an object.
Extracted(keys, age) ==
    [k \in ProfileKeys |->
        IF k \notin keys THEN Absent ELSE IF k = "age" THEN age ELSE "set"]
InfoObjects ==
    {Extracted(RequiredFields, "set"), Extracted(RequiredFields, "thirty")}
Preferred(keys) ==
    [k \in PolicyKeys |->
        IF k \notin keys THEN Absent
        ELSE IF k = "policy_type" THEN "Term Life" ELSE "set"]
PolicyObjects == {Preferred({"coverage_amount"}), Preferred(PolicyKeys)}

NoBlock(keys) == [kind |-> "none", fields |-> EmptyDict(keys)]
BadBlock(keys) == [kind |-> "invalid", fields |-> EmptyDict(keys)]
Blocks(keys, objects) ==
    {NoBlock(keys), BadBlock(keys)} \cup {[kind |-> "object", fields |-> o] : o \in objects}

\* isinstance(age, (int, float)) or int(age) succeeds
AgeIsNumeric(age) == age # "thirty"

\* ------------------------------------------------------------ stage handlers
\* Each handler is a function from the state it receives and the model's
\* reply to the state it returns.  "messages" is kept as its length
\* (n_messages), its last element (last_message), its last HumanMessage
\* (last_human) and the number of its HumanMessages (n_human).

\* Faulty variant of Reply: the reply is appended but the step is not counted
Reply_uncounted(state, text) ==
    [state EXCEPT !.n_messages = @ + 1, !.last_message = text]

Reply(state, text) ==
    [state EXCEPT !.n_messages = @ + 1, !.last_message = text,
                  !.step_count = @ + 1]

\* Faulty variant of missing_fields: every required field is asked for
missing_fields_all(user_info) == RequiredFields

\* greeting and collect_info, "missing_fields": the required fields that are
\* no key of user_info
missing_fields(user_info) == {k \in RequiredFields : user_info[k] = Absent}

\* the required fields the prompt of greeting lists as missing: its branch for
\* a complete profile lists none
greeting_asks(user_info) ==
    IF has_basic_info(user_info) THEN {} ELSE missing_fields(user_info)

\* the required fields the prompt of collect_info lists as missing
collect_info_asks(user_info) == missing_fields(user_info)

greeting(state, text) ==
    [Reply(state, text) EXCEPT
        !.conversation_stage =
            IF has_basic_info(state.user_info) THEN "policy_selection"
            ELSE "collecting_info"]

collect_info(state, text, block) ==
    LET user_info == IF block.kind = "object"
                     THEN Update(state.user_info, block.fields)
                     ELSE state.user_info
        old == state.policy_details
        policy_type == IF old["policy_type"] = Absent
                       THEN PolicyTypeIn(state.last_message)
                       ELSE old["policy_type"]
        coverage == IF old["coverage_amount"] = Absent
                    THEN CoverageIn(state.last_message)
                    ELSE old["coverage_amount"]
        policy_details == [old EXCEPT !["policy_type"] = policy_type,
                                      !["coverage_amount"] = coverage]
        basic == has_basic_info(user_info) /\ AgeIsNumeric(user_info["age"])
        next_stage == IF basic /\ has_policy_info(policy_details)
                      THEN "recommendation"
                      ELSE IF basic THEN "policy_selection"
                      ELSE "collecting_info"
    IN  IF block.kind = "invalid"
        THEN [Reply(state, text) EXCEPT !.conversation_stage = "collecting_info"]
        ELSE [Reply(state, text) EXCEPT
                 !.user_info = user_info,
                 !.policy_details = policy_details,
                 !.conversation_stage = next_stage]

\* Faulty variant of policy_selection: a block that cannot be parsed restarts
\* the selection with empty policy details
policy_selection_restarting(state, text, block) ==
    LET policy_details == IF block.kind = "object"
                          THEN Update(state.policy_details, block.fields)
                          ELSE state.policy_details
    IN  IF block.kind = "invalid"
        THEN [Reply(state, text) EXCEPT
                 !.policy_details = EmptyDict(PolicyKeys),
                 !.conversation_stage = "policy_selection"]
        ELSE [Reply(state, text) EXCEPT
                 !.policy_details = policy_details,
                 !.conversation_stage =
                     IF has_policy_info(policy_details) THEN "recommendation"
                     ELSE "policy_selection"]

policy_selection(state, text, block) ==
    LET policy_details == IF block.kind = "object"
                          THEN Update(state.policy_details, block.fields)
                          ELSE state.policy_details
    IN  IF block.kind = "invalid"
        THEN [Reply(state, text) EXCEPT !.conversation_stage = "policy_selection"]
        ELSE [Reply(state, text) EXCEPT
                 !.policy_details = policy_details,
                 !.conversation_stage =
                     IF has_policy_info(policy_details) THEN "recommendation"
                     ELSE "policy_selection"]

\* get_recommendation leaves its try block normally: the chain returned, its
\* three results are objects, and the model formatted the recommendation
RecommendationSucceeds(chain, format) ==
    /\ ~ChainRaised(chain)
    /\ calculate_premium(chain.premium).object
    /\ format # Fail

\* Faulty variant of get_recommendation: a failure sends the conversation
\* back to policy_selection instead of leaving the stage as it was
get_recommendation_resets(state, chain, format, fallback) ==
    IF RecommendationSucceeds(chain, format)
    THEN [Reply(state, format) EXCEPT
             !.recommendation_result = PolicyAgentInvoke(chain),
             !.conversation_stage = "followup"]
    ELSE [Reply(state, fallback) EXCEPT
             !.recommendation_result = None,
             !.conversation_stage = "policy_selection"]

\* get_recommendation: format is the model's presentation of the result,
\* fallback its reply inside "except Exception" (each Fail when the call raised)
get_recommendation(state, chain, format, fallback) ==
    IF RecommendationSucceeds(chain, format)
    THEN [Reply(state, format) EXCEPT
             !.recommendation_result = PolicyAgentInvoke(chain),
             !.conversation_stage = "followup"]
    ELSE [Reply(state, fallback) EXCEPT
             !.recommendation_result = None,
             !.conversation_stage = state.conversation_stage]

\* Faulty variant of followup: the recommendation is dropped once the user
\* takes leave
followup_forgetting(state, text) ==
    [Reply(state, text) EXCEPT
        !.recommendation_result =
            IF HasClosing(state.last_message) THEN None ELSE @,
        !.conversation_stage =
            IF HasClosing(state.last_message) THEN "completed" ELSE "followup"]

followup(state, text) ==
    [Reply(state, text) EXCEPT
        !.conversation_stage =
            IF HasClosing(state.last_message) THEN "completed" ELSE "followup"]

\* ------------------------------------------------------------------- router

LoopStages ==
    {"greeting", "collecting_info", "policy_selection", "recommendation",
     "followup"}

\* router, "if len(messages) > 10": the stage returned for a stage of LoopStages
LoopEscape(stage, basic, policy) ==
    CASE stage = "greeting" ->
           IF basic THEN "policy_selection" ELSE "collecting_info"
      [] stage = "collecting_info" ->
           IF basic THEN "policy_selection" ELSE "collecting_info"
      [] stage = "policy_selection" ->
           IF policy THEN "recommendation" ELSE "policy_selection"
      [] stage = "recommendation" -> "followup"
      [] OTHER -> "completed"

\* Faulty variant of NormalRouting: collecting_info and policy_selection are
\* left without looking at what has been collected
NormalRouting_advancing(stage, basic, policy, is_request) ==
    CASE stage = "greeting" ->
           IF basic THEN "policy_selection" ELSE "collecting_info"
      [] stage = "collecting_info" -> "policy_selection"
      [] stage = "policy_selection" -> "recommendation"
      [] stage = "recommendation" -> "followup"
      [] stage = "followup" ->
           IF is_request THEN "recommendation" ELSE "followup"
      [] stage = "completed" ->
           IF basic /\ policy THEN "followup" ELSE END
      [] OTHER -> "greeting"

\* router, "Normal routing logic"
NormalRouting(stage, basic, policy, is_request) ==
    CASE stage = "greeting" ->
           IF basic THEN "policy_selection" ELSE "collecting_info"
      [] stage = "collecting_info" ->
           IF basic THEN "policy_selection" ELSE "collecting_info"
      [] stage = "policy_selection" ->
           IF policy THEN "recommendation" ELSE "policy_selection"
      [] stage = "recommendation" -> "followup"
      [] stage = "followup" ->
           IF is_request THEN "recommendation" ELSE "followup"
      [] stage = "completed" ->
           IF basic /\ policy THEN "followup" ELSE END
      [] OTHER -> "greeting"

\* Faulty variant of FastPath: the profile is not looked at
FastPath_by_stage(stage, basic, policy) ==
    IF stage = "greeting" THEN "greeting" ELSE "collecting_info"

\* router, "if state.get('step_count', 0) <= 1"
FastPath(stage, basic, policy) ==
    IF basic /\ policy THEN "recommendation"
    ELSE IF basic THEN "policy_selection"
    ELSE IF stage = "greeting" THEN "greeting"
    ELSE "collecting_info"

\* Faulty variant of router: the loop escape is tested before the user's
\* request for a recommendation
router_escape_first(state) ==
    LET basic == has_basic_info(state.user_info)
        policy == has_policy_info(state.policy_details)
        is_request == IsRecommendationRequest(state.last_human)
        stage == state.conversation_stage
    IN  IF state.step_count > StepCeiling THEN END
        ELSE IF state.step_count <= 1 THEN FastPath(stage, basic, policy)
        ELSE IF state.n_messages > LoopThreshold /\ stage \in LoopStages
        THEN LoopEscape(stage, basic, policy)
        ELSE IF is_request /\ basic /\ policy THEN "recommendation"
        ELSE IF is_request /\ basic /\ ~policy THEN "policy_selection"
        ELSE NormalRouting(stage, basic, policy, is_request)

router(state) ==
    LET basic == has_basic_info(state.user_info)
        policy == has_policy_info(state.policy_details)
        is_request == IsRecommendationRequest(state.last_human)
        stage == state.conversation_stage
    IN  IF state.step_count > StepCeiling THEN END
        ELSE IF state.step_count <= 1 THEN FastPath(stage, basic, policy)
        ELSE IF is_request /\ basic /\ policy THEN "recommendation"
        ELSE IF is_request /\ basic /\ ~policy THEN "policy_selection"
        ELSE IF state.n_messages > LoopThreshold /\ stage \in LoopStages
        THEN LoopEscape(stage, basic, policy)
        ELSE NormalRouting(stage, basic, policy, is_request)

\* add_conditional_edges: the mapping given for every node; a value the
\* router returns that is no key of it makes the graph raise KeyError
EdgeKeys == Stages
Edge(key) == IF key = "completed" THEN END ELSE key

\* -------------------------------------------------------------------- state

VARIABLES
    port,        \* "live": the model answers anything and may fail;
                 \* "stub": it is stubbed to answer with plain text
    known,       \* user_id in self.conversation_history
    conv,        \* self.conversation_history[user_id]
    pc,          \* "idle" between turns; "graph" while the graph runs;
                 \* "ended" / "raised" once graph.invoke returned / raised
    g,           \* the state the graph threads through its nodes
    alias,       \* whether g's user_info / policy_details are still the very
                 \* dict objects of conv (the handlers update them in place)
    next_node,   \* the node the graph runs next
    route,       \* what the router returned last in this turn
    ran,         \* the handler that ran last in this turn, and how it ended
    rec_failed,  \* get_recommendation took its except branch in this turn
    rec_reply,   \* the model's answer to the recommender's prompt, when
                 \* get_recommendation was the last step
    was_completed, \* some state of this conversation had stage "completed"
    events,      \* handlers' model calls that did not give the plain reply
    call,        \* the entry point of the turn in progress and the form passed
    turn,        \* number of turns started
    ret          \* what the last turn returned to its caller

agent_vars ==
    <<port, known, conv, pc, g, alias, next_node, route, ran, rec_failed,
      rec_reply, was_completed, events, call, turn, ret>>

\* One call of PolicyRecommendationAgent.invoke followed line by line
VARIABLES
    at,                  \* the line of invoke that runs next
    args,                \* its arguments user_info and policy_details
    risk_assessment,     \* its local of that name
    premium_calculation, \* its local of that name
    returned,            \* what it returned
    calls                \* the collaborators called so far, what each was
                         \* given, what the model answered, what it returned

chain_vars ==
    <<at, args, risk_assessment, premium_calculation, returned, calls>>

\* no call of PolicyRecommendationAgent.invoke is followed
ChainIdle ==
    /\ at = "off"
    /\ args = None
    /\ risk_assessment = None
    /\ premium_calculation = None
    /\ returned = None
    /\ calls = <<>>

\* Two chat requests of one client, each a call of invoke_async
VARIABLES
    heap,      \* the message lists that exist, by identity
    stored,    \* self.conversation_history[user_id]: its list and step_count
    requests   \* per request: where invoke_async stands, and the state its
               \* graph holds

overlap_vars == <<heap, stored, requests>>

Requests == {1, 2}
Waiting == [at |-> "waiting", messages |-> 0, step_count |-> 0, handlers |-> 0]

\* no chat request is followed
OverlapIdle ==
    /\ heap = <<>>
    /\ stored = None
    /\ requests = [k \in Requests |-> Waiting]

\* Model calls in flight, over all clients
VARIABLES
    activity,  \* per client: the model call its turn waits for, if any
    permits    \* the value of UseLLM.semaphore

flight_vars == <<activity, permits>>

MaxClients == 6
Clients == 1..MaxClients
SemaphorePermits == 5

\* no model call is in flight
FlightIdle ==
    /\ activity = [c \in Clients |-> "idle"]
    /\ permits = SemaphorePermits

\* One application of a function of the handlers to one argument
VARIABLES
    given,     \* the argument
    computed   \* the value, once the function was applied

function_vars == <<given, computed>>

\* no function is applied
FunctionIdle == given = None /\ computed = None

\* The histories the three specialist agents keep, and the recommendation
\* cycle in progress
VARIABLES
    risk_history,            \* RiskAssessmentAgent.risk_history
    premium_history,         \* PremiumCalculationAgent.premium_history
    recommendation_history,  \* PolicyRecommendationAgent.recommendation_history
    cycle,                   \* the cycle in progress: its client and position
    cycles                   \* cycles started so far

history_vars ==
    <<risk_history, premium_history, recommendation_history, cycle, cycles>>

\* Recommendation cycles run over the life of the process.
MaxCycles == 6
\* "[-5:]" in _update_user_history
HistoryCap == 5

HistoryUsers == {"a", "b"}
\* the keys of the three dicts: a user_id, or the default of
\* user_info.get("user_id", "unknown")
HistoryKeys == HistoryUsers \cup {"unknown"}
NoHistory == [k \in HistoryKeys |-> <<>>]
NoCycle == [n |-> 0, client |-> Absent, at |-> "idle"]

\* the agents as constructed: "self.risk_history = {}" and its likes
HistoryIdle ==
    /\ risk_history = NoHistory
    /\ premium_history = NoHistory
    /\ recommendation_history = NoHistory
    /\ cycle = NoCycle
    /\ cycles = 0

\* The response cache of UseLLM, an LRUCache
VARIABLES
    cache,         \* the keys of self.cache (no decision reads the values)
    access_times,  \* self.access_times: (key, time) in insertion order
    now,           \* the last reading of time.time()
    used,          \* the cached keys, the least recently used first
    done,          \* the last operation: what it evicted and what was
                   \* the least recently used key before it
    ops            \* operations so far

cache_vars == <<cache, access_times, now, used, done, ops>>

\* "max_size" of the cache (100 in UseLLM), scaled down.
max_size == 2
\* Operations on the cache.
MaxOps == 5

CacheKeys == 1..(max_size + 1)
NothingDone == [evicted |-> <<>>, least_recent |-> <<>>]

\* LRUCache.__init__
CacheIdle ==
    /\ cache = {}
    /\ access_times = <<>>
    /\ now = 0
    /\ used = <<>>
    /\ done = NothingDone
    /\ ops = 0

HistoryAndCacheIdle == HistoryIdle /\ CacheIdle

Idle == ChainIdle /\ OverlapIdle /\ FlightIdle /\ FunctionIdle
           /\ HistoryAndCacheIdle

side == <<chain_vars, overlap_vars, flight_vars, function_vars, history_vars,
          cache_vars>>

beside_chain ==
    <<agent_vars, overlap_vars, flight_vars, function_vars, history_vars,
      cache_vars>>
beside_overlap ==
    <<agent_vars, chain_vars, flight_vars, function_vars, history_vars,
      cache_vars>>
beside_flight ==
    <<agent_vars, chain_vars, overlap_vars, function_vars, history_vars,
      cache_vars>>
beside_function ==
    <<agent_vars, chain_vars, overlap_vars, flight_vars, history_vars,
      cache_vars>>
beside_history ==
    <<agent_vars, chain_vars, overlap_vars, flight_vars, function_vars,
      cache_vars>>
beside_cache ==
    <<agent_vars, chain_vars, overlap_vars, flight_vars, function_vars,
      history_vars>>

vars == <<agent_vars, side>>

\* _initialize_conversation_state before the frontend details are merged.
\* self.user_states[user_id] is only written by _update_user_state and only
\* read here, for a client not yet in conversation_history; a client is never
\* removed from conversation_history, so what is read is always the state
\* _get_or_create_user_state creates: empty dicts and no result.
NewConversation ==
    [n_messages |-> 1, last_message |-> "system", last_human |-> Absent,
     n_human |-> 0,
     user_info |-> EmptyDict(ProfileKeys),
     policy_details |-> EmptyDict(PolicyKeys),
     recommendation_result |-> None,
     conversation_stage |-> "greeting", step_count |-> 0]

\* The onboarding forms a caller may pass as user_details: none; the profile
\* attributes; these plus coverageAmount and policyTerm.
Details == {"none", "basic", "full"}
FormProfile(d) ==
    [k \in ProfileKeys |-> IF d \in {"basic", "full"} THEN "set" ELSE Absent]
FormPolicy(d) ==
    [k \in PolicyKeys |->
        IF k = "policy_type" THEN "Life"
        ELSE IF d = "full" THEN "set" ELSE Absent]

\* _incorporate_frontend_details (invoked only for a non-empty form)
_incorporate_frontend_details(state, d) ==
    [state EXCEPT !.user_info = Update(@, FormProfile(d)),
                  !.policy_details = Update(@, FormPolicy(d))]

\* _initialize_conversation_state
_initialize_conversation_state(d) ==
    LET state == IF d = "none" THEN NewConversation
                 ELSE _incorporate_frontend_details(NewConversation, d)
    IN  [state EXCEPT !.conversation_stage =
            IF has_basic_info(state.user_info) /\ has_policy_info(state.policy_details)
            THEN "recommendation"
            ELSE IF has_basic_info(state.user_info) THEN "policy_selection"
            ELSE "greeting"]

\* What the port answers
Texts == IF port = "stub" THEN {PlainReply} ELSE ReplyTexts
TextsOrFail == IF port = "stub" THEN {PlainReply} ELSE ReplyTexts \cup {Fail}
InfoBlocks ==
    IF port = "stub" THEN {NoBlock(ProfileKeys)} ELSE Blocks(ProfileKeys, InfoObjects)
PolicyBlocks ==
    IF port = "stub" THEN {NoBlock(PolicyKeys)} ELSE Blocks(PolicyKeys, PolicyObjects)
PlainChain == Chain("text", "text", NoResponse("text"))
Chains == IF port = "stub" THEN {PlainChain} ELSE ChainOutcomes

\* The answers flagged are not the plain ones: they count as events
Count(flags) == Cardinality({i \in DOMAIN flags : flags[i]})
Spend(flags) ==
    /\ events + Count(flags) <= MaxEvents
    /\ events' = events + Count(flags)

TurnBound == IF port = "stub" THEN MaxStubTurns ELSE MaxTurns

\* the fixed "Hello! ..." reply of invoke's last branch
DefaultReply == "default reply"
NoReturn == [path |-> "none", conversation_stage |-> Absent, response |-> Absent]

Constructed ==
    /\ port \in {"live", "stub"}
    /\ known = FALSE
    /\ conv = NewConversation
    /\ pc = "idle"
    /\ g = NewConversation
    /\ alias = [user_info |-> TRUE, policy_details |-> TRUE]
    /\ next_node = "none"
    /\ route = "none"
    /\ ran = [node |-> "none", outcome |-> "none"]
    /\ rec_failed = FALSE
    /\ rec_reply = NoResponse(NotCalled)
    /\ was_completed = FALSE
    /\ events = 0
    /\ call = [mode |-> "sync", details |-> "none"]
    /\ turn = 0
    /\ ret = NoReturn

Init == Constructed /\ Idle

\* ------------------------------------------------------------------ actions

\* Faulty variant of first_message_with_profile: the counter is compared with
\* 1, so the first message of a complete profile goes to the graph
first_message_off_by_one(state) ==
    state.step_count = 1 /\ has_basic_info(state.user_info)

\* invoke: "if ...['step_count'] == 0" and "if has_basic_info": the message is
\* answered with the detailed greeting and the graph is not run
first_message_with_profile(state) ==
    state.step_count = 0 /\ has_basic_info(state.user_info)

Ran(node, outcome) == [node |-> node, outcome |-> outcome]

\* invoke and invoke_async, their first lines: the conversation is created or
\* the form merged into the stored one, and the message is appended
Received(message, d) ==
    LET state0 == IF ~known THEN _initialize_conversation_state(d)
                  ELSE IF d # "none"
                  THEN _incorporate_frontend_details(conv, d)
                  ELSE conv
    IN  [state0 EXCEPT !.n_messages = @ + 1,
                       !.last_message = message,
                       !.last_human = message,
                       !.n_human = @ + 1]

\* graph.invoke / graph.ainvoke is called on the stored state
StartGraph(state) ==
    /\ conv' = state
    /\ g' = state
    /\ alias' = [user_info |-> TRUE, policy_details |-> TRUE]
    /\ next_node' = "greeting"
    /\ pc' = "graph"
    /\ ret' = NoReturn
    /\ known' = TRUE
    /\ route' = "none"
    /\ ran' = Ran("none", "none")
    /\ rec_failed' = FALSE
    /\ rec_reply' = NoResponse(NotCalled)

\* CommunicationAgent.invoke up to graph.invoke: the conversation is created
\* or the form merged, the message appended, and on a first message with a
\* complete profile the detailed greeting is generated and returned.  When
\* that model call raises, the except clause names an unbound variable and
\* invoke raises.
InvokeEntry(message, d, text) ==
    LET state1 == Received(message, d)
        stage == IF has_policy_info(state1.policy_details)
                 THEN "recommendation" ELSE "policy_selection"
        state2 == [Reply(state1, text) EXCEPT !.conversation_stage = stage]
    IN  IF first_message_with_profile(state1)
        THEN /\ pc' = "idle"
             /\ IF text # Fail
                THEN /\ conv' = state2
                     /\ ret' = [path |-> "first_greeting",
                                conversation_stage |-> stage,
                                response |-> text]
                ELSE /\ conv' = state1
                     /\ ret' = [path |-> "raised",
                                conversation_stage |-> Absent,
                                response |-> Absent]
             /\ known' = TRUE
             /\ route' = "none"
             /\ ran' = Ran("none", "none")
             /\ rec_failed' = FALSE
             /\ rec_reply' = NoResponse(NotCalled)
             /\ UNCHANGED <<g, alias, next_node>>
        ELSE /\ text = PlainReply
             /\ StartGraph(state1)

\* the method the caller called, and the form it passed (kept for the
\* fallback of invoke_async)
SyncCall == [mode |-> "sync", details |-> "none"]
AsyncCall(d) == [mode |-> "async", details |-> d]

\* a caller calls CommunicationAgent.invoke
Invoke ==
    /\ pc = "idle"
    /\ turn < TurnBound
    /\ \E message \in UserTexts, d \in Details, text \in TextsOrFail :
          InvokeEntry(message, d, text)
    /\ turn' = turn + 1
    /\ call' = SyncCall
    /\ UNCHANGED side
    /\ UNCHANGED <<port, was_completed, events>>

\* a caller (the chat route) calls CommunicationAgent.invoke_async: the same
\* first lines, then graph.ainvoke at once
InvokeAsync ==
    /\ pc = "idle"
    /\ turn < TurnBound
    /\ \E message \in UserTexts, d \in Details :
          /\ StartGraph(Received(message, d))
          /\ call' = AsyncCall(d)
    /\ turn' = turn + 1
    /\ UNCHANGED side
    /\ UNCHANGED <<port, was_completed, events>>

\* invoke_async, "except Exception": self.invoke is called with the same
\* message and form, on the stored state that already holds the message
AsyncFallback ==
    /\ pc = "raised"
    /\ call.mode = "async"
    /\ \E text \in TextsOrFail :
          InvokeEntry(conv.last_human, call.details, text)
    /\ call' = SyncCall
    /\ UNCHANGED side
    /\ UNCHANGED <<port, was_completed, events, turn>>

\* After a node returned state: the conditional edge evaluates the router on
\* it and looks the answer up in the edge mapping.
Routed(state) ==
    LET r == router(state)
    IN  /\ g' = state
        /\ was_completed' =
              (was_completed \/ state.conversation_stage = "completed")
        /\ route' = r
        /\ IF r \notin EdgeKeys
           THEN pc' = "raised" /\ next_node' = "none"
           ELSE IF Edge(r) = END
           THEN pc' = "ended" /\ next_node' = "none"
           ELSE pc' = "graph" /\ next_node' = Edge(r)

\* The model call of a node raised: graph.invoke raises
NodeRaised ==
    /\ pc' = "raised"
    /\ next_node' = "none"
    /\ UNCHANGED <<g, route, was_completed>>

Greeting ==
    /\ pc = "graph" /\ next_node = "greeting"
    /\ \E text \in TextsOrFail :
          /\ Spend(<<text # PlainReply>>)
          /\ IF text = Fail
             THEN NodeRaised /\ ran' = Ran("greeting", "raised")
             ELSE Routed(greeting(g, text)) /\ ran' = Ran("greeting", "ok")
    /\ rec_reply' = NoResponse(NotCalled)
    /\ UNCHANGED side
    /\ UNCHANGED <<port, known, conv, alias, rec_failed, call, turn, ret>>

\* "user_info = state['user_info'] or {}": an empty dict is replaced by a new
\* one, a non-empty one is updated in place
CollectInfo ==
    /\ pc = "graph" /\ next_node = "collecting_info"
    /\ \E text \in TextsOrFail, block \in InfoBlocks :
          /\ Spend(<<text # PlainReply \/ block # NoBlock(ProfileKeys)>>)
          /\ IF text = Fail
             THEN /\ block = NoBlock(ProfileKeys)
                  /\ NodeRaised /\ ran' = Ran("collecting_info", "raised")
                  /\ UNCHANGED <<conv, alias>>
             ELSE LET state == collect_info(g, text, block)
                      parsed == block.kind # "invalid"
                      same == [user_info |->
                                   alias.user_info /\ ~IsEmpty(g.user_info),
                               policy_details |->
                                   IF parsed
                                   THEN alias.policy_details /\ ~IsEmpty(g.policy_details)
                                   ELSE alias.policy_details]
                  IN  /\ Routed(state)
                      /\ ran' = Ran("collecting_info",
                                    IF parsed THEN "ok" ELSE "parse_error")
                      /\ alias' = same
                      /\ conv' = [conv EXCEPT
                             !.user_info =
                                 IF same.user_info THEN state.user_info ELSE @,
                             !.policy_details =
                                 IF parsed /\ same.policy_details
                                 THEN state.policy_details ELSE @]
    /\ rec_reply' = NoResponse(NotCalled)
    /\ UNCHANGED side
    /\ UNCHANGED <<port, known, rec_failed, call, turn, ret>>

PolicySelection ==
    /\ pc = "graph" /\ next_node = "policy_selection"
    /\ \E text \in TextsOrFail, block \in PolicyBlocks :
          /\ Spend(<<text # PlainReply \/ block # NoBlock(PolicyKeys)>>)
          /\ IF text = Fail
             THEN /\ block = NoBlock(PolicyKeys)
                  /\ NodeRaised /\ ran' = Ran("policy_selection", "raised")
                  /\ UNCHANGED <<conv, alias>>
             ELSE LET state == policy_selection(g, text, block)
                      same == alias.policy_details /\ ~IsEmpty(g.policy_details)
                  IN  /\ Routed(state)
                      /\ ran' = Ran("policy_selection",
                                    IF block.kind # "invalid" THEN "ok"
                                    ELSE "parse_error")
                      /\ alias' = [alias EXCEPT !.policy_details = same]
                      /\ conv' = [conv EXCEPT !.policy_details =
                                     IF same THEN state.policy_details ELSE @]
    /\ rec_reply' = NoResponse(NotCalled)
    /\ UNCHANGED side
    /\ UNCHANGED <<port, known, rec_failed, call, turn, ret>>

GetRecommendation ==
    /\ pc = "graph" /\ next_node = "recommendation"
    /\ \E chain \in Chains, format \in TextsOrFail, fallback \in TextsOrFail :
          LET chain_ok == ~ChainRaised(chain) /\ calculate_premium(chain.premium).object
              state == get_recommendation(g, chain, format, fallback)
          IN  \* a call that is not made has no answer to choose
              /\ ~chain_ok => format = PlainReply
              /\ RecommendationSucceeds(chain, format) => fallback = PlainReply
              /\ Spend(<<chain # PlainChain, format # PlainReply,
                         fallback # PlainReply>>)
              /\ rec_reply' = chain.policy
              /\ IF RecommendationSucceeds(chain, format)
                 THEN /\ Routed(state)
                      /\ ran' = Ran("recommendation", "ok")
                      /\ rec_failed' = rec_failed
                 ELSE IF fallback # Fail
                 THEN /\ Routed(state)
                      /\ ran' = Ran("recommendation", "failed")
                      /\ rec_failed' = TRUE
                 ELSE /\ NodeRaised
                      /\ ran' = Ran("recommendation", "raised")
                      /\ rec_failed' = TRUE
    /\ UNCHANGED side
    /\ UNCHANGED <<port, known, conv, alias, call, turn, ret>>

Followup ==
    /\ pc = "graph" /\ next_node = "followup"
    /\ \E text \in TextsOrFail :
          /\ Spend(<<text # PlainReply>>)
          /\ IF text = Fail
             THEN NodeRaised /\ ran' = Ran("followup", "raised")
             ELSE Routed(followup(g, text)) /\ ran' = Ran("followup", "ok")
    /\ rec_reply' = NoResponse(NotCalled)
    /\ UNCHANGED side
    /\ UNCHANGED <<port, known, conv, alias, rec_failed, call, turn, ret>>

\* invoke after graph.invoke returned: the result replaces the stored state
InvokeReturn ==
    /\ pc = "ended"
    /\ conv' = g
    /\ ret' = [path |-> "graph", conversation_stage |-> g.conversation_stage,
               response |-> g.last_message]
    /\ pc' = "idle"
    /\ UNCHANGED side
    /\ UNCHANGED <<port, known, g, alias, next_node, route, ran, rec_failed,
                   rec_reply, was_completed, events, call, turn>>

\* invoke, "except Exception": a contextual reply is appended to the stored
\* state, or, when that model call raises too, a fixed reply is returned
InvokeExcept ==
    /\ pc = "raised"
    /\ call.mode = "sync"
    /\ \E text \in TextsOrFail :
          IF text # Fail
          THEN LET state == Reply(conv, text)
               IN  /\ conv' = state
                   /\ ret' = [path |-> "contextual",
                              conversation_stage |-> state.conversation_stage,
                              response |-> text]
          ELSE /\ ret' = [path |-> "default",
                          conversation_stage |->
                              IF has_basic_info(conv.user_info)
                              THEN "policy_selection" ELSE "collecting_info",
                          response |-> DefaultReply]
               /\ UNCHANGED conv
    /\ pc' = "idle"
    /\ UNCHANGED side
    /\ UNCHANGED <<port, known, g, alias, next_node, route, ran, rec_failed,
                   rec_reply, was_completed, events, call, turn>>

Next ==
    \/ Invoke
    \/ Greeting
    \/ CollectInfo
    \/ PolicySelection
    \/ GetRecommendation
    \/ Followup
    \/ InvokeReturn
    \/ InvokeExcept

Spec == Init /\ [][Next]_vars

\* The callers use invoke_async, as the chat route does
InitAsync == Init /\ port = "live"

NextAsync ==
    \/ InvokeAsync
    \/ Greeting
    \/ CollectInfo
    \/ PolicySelection
    \/ GetRecommendation
    \/ Followup
    \/ InvokeReturn
    \/ AsyncFallback
    \/ InvokeExcept

SpecAsync == InitAsync /\ [][NextAsync]_vars

\* ------------------------------------------------------------ properties

\* The router was evaluated in this turn, on g, and returned route
RouterEvaluated == route # "none"

\* C1: whatever the user sends and the model answers, once 50 turns of a
\* client have ended its conversation has been in stage "completed".
C1_CompletedWithin50Turns ==
    (pc = "idle" /\ turn >= 50) => was_completed

\* C2: whenever the router is evaluated on a state whose step_count is above
\* 50 it returns "completed", the turn does not end by an error, and once the
\* turn has ended the stored stage is "completed".
C2_CeilingCompletes ==
    (RouterEvaluated /\ g.step_count > 50) =>
        /\ route = "completed"
        /\ pc # "raised"
        /\ ret.path \notin {"contextual", "default", "raised"}
        /\ (pc = "idle" => conv.conversation_stage = "completed")

StageRank(stage) ==
    CASE stage = "greeting" -> 0
      [] stage = "collecting_info" -> 1
      [] stage = "policy_selection" -> 2
      [] stage = "recommendation" -> 3
      [] stage = "followup" -> 4
      [] OTHER -> 5

\* C3: when the four required attributes are present, no handler the graph
\* runs moves the stage backwards in the order greeting, collecting_info,
\* policy_selection, recommendation, followup, completed (except completed to
\* followup), and the greeting handler is not run on a state whose stage is
\* collecting_info or later.
C3_NoBackwardStage ==
    [][(pc = "graph" /\ has_basic_info(g.user_info)) =>
          /\ \/ StageRank(g'.conversation_stage) >= StageRank(g.conversation_stage)
             \/ /\ g.conversation_stage = "completed"
                /\ g'.conversation_stage = "followup"
          /\ next_node = "greeting" => g.conversation_stage = "greeting"]_vars

\* The recommender's output held in a state that has a recommendation result
RecommendationOf(state) == state.recommendation_result.policy_recommendation
\* get_recommendation has just stored the recommender's output for rec_reply
RecommenderReturned == ran = Ran("recommendation", "ok")

\* C4: every recommendation the recommender returns, whatever the model
\* answered to its prompt, names one of the 8 policies of the catalogue.
C4_NameInCatalogue ==
    /\ Cardinality(CatalogueNames) = 8
    /\ RecommenderReturned =>
          /\ RecommendationOf(g) = recommend_policy(rec_reply)
          /\ RecommendationOf(g).name \in CatalogueNames
    /\ g.recommendation_result # None =>
          RecommendationOf(g).name \in CatalogueNames
    /\ conv.recommendation_result # None =>
          RecommendationOf(conv).name \in CatalogueNames

\* C4, its case: the model named an invented policy and the recommender
\* returned a recommendation
C4_InventedNameReturned ==
    /\ RecommenderReturned
    /\ rec_reply.kind = "json"
    /\ rec_reply.name = "Platinum Shield Plan"
    /\ g.recommendation_result # None

\* C5: when the model's parsed answer names a policy that is not in the
\* catalogue the recommender returns the first catalogue entry's name with
\* the substitution note; when it names a catalogue policy the name and the
\* model's own notes are returned as they are.
C5_SubstituteOrKeep ==
    (RecommenderReturned /\ rec_reply.kind = "json") =>
        IF rec_reply.name \notin CatalogueNames
        THEN /\ RecommendationOf(g).name = AVAILABLE_POLICIES[1].name
             /\ RecommendationOf(g).name = "Term Life Insurance - 10 Years"
             /\ RecommendationOf(g).additional_notes = SubstitutionNote
        ELSE /\ RecommendationOf(g).name = rec_reply.name
             /\ RecommendationOf(g).additional_notes = rec_reply.additional_notes
             /\ RecommendationOf(g).additional_notes # SubstitutionNote

\* C5, its case: an invented name was replaced by the first entry, with the note
C5_Substituted ==
    /\ RecommenderReturned
    /\ rec_reply.kind = "json"
    /\ rec_reply.name \notin CatalogueNames
    /\ RecommendationOf(g).additional_notes = SubstitutionNote

\* The first turn of a client whose form gave the four required attributes,
\* policyType and coverageAmount, and whose message asks for a recommendation
\* (seen on the state invoke has appended the message to)
CompleteFirstRequest(state) ==
    /\ has_basic_info(state.user_info)
    /\ has_policy_info(state.policy_details)
    /\ IsRecommendationRequest(state.last_human)

C7_FirstTurnCollects ==
    (turn = 1 /\ pc = "idle" /\ events = 0
        /\ ret.path \in {"graph", "contextual", "default"}) =>
        /\ conv.conversation_stage = "collecting_info"
        /\ IsEmpty(conv.user_info)

\* the next stage of the nominal order
Successor(stage) ==
    CASE stage = "greeting" -> "collecting_info"
      [] stage = "collecting_info" -> "policy_selection"
      [] stage = "policy_selection" -> "recommendation"
      [] stage = "recommendation" -> "followup"
      [] OTHER -> "completed"

\* C8: when the router is evaluated on a transcript of more than 10 messages
\* after the handler of collecting_info or policy_selection ran and left the
\* stage where it was (and the user did not ask for a recommendation, and
\* the step ceiling is not reached), it returns the next stage of the
\* nominal order, whether or not the stage's information is complete.
C8_LoopEscapeAdvances ==
    (/\ RouterEvaluated
     /\ ran.outcome # "raised"
     /\ ran.node = g.conversation_stage
     /\ g.conversation_stage \in {"collecting_info", "policy_selection"}
     /\ g.n_messages > LoopThreshold
     /\ g.step_count > 1 /\ g.step_count <= StepCeiling
     /\ ~IsRecommendationRequest(g.last_human)) =>
        route = Successor(g.conversation_stage)

\* a step in which get_recommendation took its except branch and returned
RecommendationFailed ==
    /\ pc = "graph" /\ next_node = "recommendation"
    /\ ran' = Ran("recommendation", "failed")

C10_NoRetryInTurn ==
    (rec_failed /\ pc = "graph") => next_node # "recommendation"

\* the graph is running, or has just ended or raised, in this turn
InGraph == pc \in {"graph", "ended", "raised"}
\* handlers that have returned so far in this turn (conv keeps the state the
\* graph was started on)
HandlersRun == g.step_count - conv.step_count

\* C11: in a turn exactly one stage handler is invoked: no handler is about
\* to run once one has returned, and when the graph has ended one handler has
\* run and one reply has been added to the transcript.
C11_OneHandlerPerTurn ==
    /\ pc = "graph" => HandlersRun = 0
    /\ InGraph => HandlersRun <= 1
    /\ pc = "ended" => (HandlersRun = 1 /\ g.n_messages = conv.n_messages + 1)

\* a step in which a stage handler ran and returned a state
HandlerReturned ==
    /\ pc = "graph"
    /\ ran'.node = next_node
    /\ ran'.outcome \in {"ok", "parse_error", "failed"}

\* C12: the stored step_count of a client never decreases, and every stage
\* handler that returns, from its try block or from its except branch,
\* returns a step_count one above the one it received.
C12_StepCountGrows ==
    [][/\ conv'.step_count >= conv.step_count
       /\ HandlerReturned => g'.step_count = g.step_count + 1]_vars

\* C12, its case: get_recommendation has returned from its except branch
\* after other handlers ran, and a turn before it has stored its count
C12_CountedFailure ==
    /\ ran = Ran("recommendation", "failed")
    /\ conv.step_count >= 1
    /\ g.step_count >= conv.step_count + 2

\* C13: when the router is evaluated on a state whose step_count is at most 1
\* and whose four required attributes are present, it returns recommendation
\* if policy_type and coverage_amount are present and policy_selection
\* otherwise (so neither greeting nor collecting_info).
C13_FastPath ==
    (RouterEvaluated /\ g.step_count <= 1 /\ has_basic_info(g.user_info)) =>
        /\ route = IF has_policy_info(g.policy_details)
                   THEN "recommendation" ELSE "policy_selection"
        /\ route \notin {"greeting", "collecting_info"}

\* C13, its case: the first handler of a conversation has returned a complete
\* profile with preferences and the router answered recommendation
C13_FastPathTaken ==
    /\ RouterEvaluated
    /\ g.step_count = 1
    /\ has_basic_info(g.user_info)
    /\ has_policy_info(g.policy_details)
    /\ route = "recommendation"

\* C14: when the router is evaluated (below the step ceiling) on a state whose
\* last user message asks for a recommendation and whose four required
\* attributes are present, it returns recommendation if policy_type and
\* coverage_amount are present and policy_selection if not, whatever the
\* stage and the length of the transcript are.
C14_IntentOverride ==
    (/\ RouterEvaluated
     /\ g.step_count <= StepCeiling
     /\ IsRecommendationRequest(g.last_human)
     /\ has_basic_info(g.user_info)) =>
        route = IF has_policy_info(g.policy_details)
                THEN "recommendation" ELSE "policy_selection"

\* C14, its case: the request won over the loop escape in stage followup
C14_OverrideInFollowup ==
    /\ RouterEvaluated
    /\ IsRecommendationRequest(g.last_human)
    /\ g.conversation_stage = "followup"
    /\ g.n_messages > LoopThreshold
    /\ g.step_count <= StepCeiling
    /\ route = "recommendation"

\* the router was evaluated and none of its rules before the normal routing
\* applied: step_count is in 2..20, the user did not ask for a recommendation
\* with a complete profile, and the transcript has at most 10 messages
DefaultRuleDecided ==
    /\ RouterEvaluated
    /\ g.step_count > 1 /\ g.step_count <= StepCeiling
    /\ ~(IsRecommendationRequest(g.last_human) /\ has_basic_info(g.user_info))
    /\ g.n_messages <= LoopThreshold

\* C15: when only the normal routing applies, the router answers
\* policy_selection for stage collecting_info exactly when the four required
\* attributes are present, and recommendation for stage policy_selection
\* exactly when policy_type and coverage_amount are present; otherwise it
\* answers the stage itself.
C15_DefaultRule ==
    DefaultRuleDecided =>
        /\ g.conversation_stage = "collecting_info" =>
              route = IF has_basic_info(g.user_info)
                      THEN "policy_selection" ELSE "collecting_info"
        /\ g.conversation_stage = "policy_selection" =>
              route = IF has_policy_info(g.policy_details)
                      THEN "recommendation" ELSE "policy_selection"

\* C15, its case: policy_selection ran, coverage_amount is still missing and
\* the normal routing answered policy_selection again
C15_StayedInSelection ==
    /\ DefaultRuleDecided
    /\ ran.node = "policy_selection"
    /\ g.conversation_stage = "policy_selection"
    /\ ~has_policy_info(g.policy_details)
    /\ route = "policy_selection"

\* C19: a turn that ended did not raise: invoke returned a response holding a
\* reply and a stage, whatever model call failed during the turn.
C19_TurnReturnsResponse ==
    (pc = "idle" /\ turn > 0) =>
        /\ ret.path \in {"first_greeting", "graph", "contextual", "default"}
        /\ ret.conversation_stage \in Stages

\* ------------------------------------- one recommendation attempt, step by step

\* the profiles and policy details get_recommendation may pass
ChainArguments ==
    {[user_info |-> FormProfile(d), policy_details |-> FormPolicy(d)] :
        d \in Details}

\* risk_agent.invoke(user_info)
RiskArguments(a) == [user_info |-> a.user_info]

\* Faulty variant of PremiumArguments: the premium is calculated without the
\* risk assessment
PremiumArguments_without_risk(a, risk) ==
    [user_info |-> a.user_info, risk_assessment |-> None,
     policy_details |-> a.policy_details]

\* premium_agent.invoke(user_info, risk_assessment, policy_details)
PremiumArguments(a, risk) ==
    [user_info |-> a.user_info, risk_assessment |-> risk,
     policy_details |-> a.policy_details]

\* initial_state of the recommender's graph
RecommenderArguments(a, risk, premium) ==
    [user_info |-> a.user_info, risk_assessment |-> risk,
     premium_calculation |-> premium]

Called(who, arguments, response, result) ==
    [who |-> who, arguments |-> arguments, response |-> response,
     result |-> result]

\* "risk_assessment = self.risk_agent.invoke(user_info)"
RiskCall ==
    /\ at = "risk"
    /\ \E response \in RiskResponses \cup {Fail} :
          LET result == IF response = Fail THEN None ELSE assess_risk(response)
          IN  /\ calls' = Append(calls, Called("risk", RiskArguments(args),
                                               response, result))
              /\ risk_assessment' = result
              /\ at' = IF response = Fail THEN "raised" ELSE "premium"
    /\ UNCHANGED <<args, premium_calculation, returned>>
    /\ UNCHANGED beside_chain

\* "premium_calculation = self.premium_agent.invoke(user_info,
\* risk_assessment, policy_details)"
PremiumCall ==
    /\ at = "premium"
    /\ \E response \in PremiumResponses \cup {Fail} :
          LET result == IF response = Fail THEN None
                        ELSE calculate_premium(response)
          IN  /\ calls' = Append(calls,
                     Called("premium", PremiumArguments(args, risk_assessment),
                            response, result))
              /\ premium_calculation' = result
              /\ at' = IF response = Fail THEN "raised" ELSE "recommender"
    /\ UNCHANGED <<args, risk_assessment, returned>>
    /\ UNCHANGED beside_chain

\* "result = self.graph.invoke(initial_state)" and the return statement.  The
\* recommender's node reads premium_calculation.get(...) while it builds its
\* prompt, which raises for a premium that is no object, before the model is
\* asked.
RecommenderCall ==
    /\ at = "recommender"
    /\ \E response \in RecommenderResponses \cup {NoResponse(Fail)} :
          LET raised == response.kind = Fail
              result == IF raised THEN None ELSE recommend_policy(response)
          IN  /\ ~premium_calculation.object => raised
              /\ calls' = Append(calls,
                     Called("recommender",
                            RecommenderArguments(args, risk_assessment,
                                                 premium_calculation),
                            response, result))
              /\ at' = IF raised THEN "raised" ELSE "returned"
              /\ returned' =
                    IF raised THEN None
                    ELSE [risk_assessment |-> risk_assessment,
                          premium_calculation |-> premium_calculation,
                          policy_recommendation |-> result]
    /\ UNCHANGED <<args, risk_assessment, premium_calculation>>
    /\ UNCHANGED beside_chain

InitChain ==
    /\ Constructed /\ port = "live"
    /\ at = "risk"
    /\ args \in ChainArguments
    /\ risk_assessment = None
    /\ premium_calculation = None
    /\ returned = None
    /\ calls = <<>>
    /\ OverlapIdle /\ FlightIdle /\ FunctionIdle /\ HistoryAndCacheIdle

NextChain ==
    \/ RiskCall
    \/ PremiumCall
    \/ RecommenderCall

SpecChain == InitChain /\ [][NextChain]_vars

Who(log) == [i \in 1..Len(log) |-> log[i].who]
ChainOrder == <<"risk", "premium", "recommender">>

\* C16: the collaborators are called in the order Risk Scorer, Premium
\* Calculator, Policy Recommender and none twice; the Premium Calculator is
\* given the assessment the Risk Scorer returned, the Policy Recommender is
\* given that assessment and the premium the Premium Calculator returned;
\* and when the attempt returns, each was called once and the result holds
\* exactly the three values they returned.
C16_ChainOrder ==
    /\ Len(calls) <= 3
    /\ Who(calls) = SubSeq(ChainOrder, 1, Len(calls))
    /\ Len(calls) >= 2 =>
          calls[2].arguments.risk_assessment = calls[1].result
    /\ Len(calls) >= 3 =>
          /\ calls[3].arguments.risk_assessment = calls[1].result
          /\ calls[3].arguments.premium_calculation = calls[2].result
    /\ at = "returned" =>
          /\ Len(calls) = 3
          /\ DOMAIN returned =
                {"risk_assessment", "premium_calculation",
                 "policy_recommendation"}
          /\ returned.risk_assessment = calls[1].result
          /\ returned.premium_calculation = calls[2].result
          /\ returned.policy_recommendation = calls[3].result

\* C16, its case: an attempt returned after its three calls, the risk
\* assessment being the one parsed from the model's answer
C16_AttemptReturned ==
    /\ at = "returned"
    /\ Len(calls) = 3
    /\ calls[1].response = "json"
    /\ calls[2].arguments.risk_assessment = assess_risk("json")

\* the Risk Scorer was called and no JSON object could be read from the
\* model's answer
RiskUnparsed == Len(calls) >= 1 /\ calls[1].response \in Unparsable

\* C20: when the model's text cannot be parsed, the Risk Scorer returns for
\* every profile the same default: risk_score 50 and a risk_factors list whose
\* single entry is "Unable to parse assessment".
C20_RiskFallback ==
    RiskUnparsed =>
        /\ calls[1].result.risk_score = 50
        /\ calls[1].result.risk_factors = <<"Unable to parse assessment">>

\* C20 as the specification words it: the single entry of the list is
\* "unable to parse"
C20_RiskFallbackAsWorded ==
    RiskUnparsed =>
        /\ calls[1].result.risk_score = 50
        /\ calls[1].result.risk_factors = <<"unable to parse">>

\* C20, its case: the Risk Scorer was called for a complete profile and the
\* model answered with text that json.loads rejects
C20_UnparsedForProfile ==
    /\ Len(calls) >= 1
    /\ calls[1].who = "risk"
    /\ calls[1].response = "text"
    /\ has_basic_info(calls[1].arguments.user_info)

\* ------------------------------------------- two chat requests of one client

MaxHandlers == 2

UserMessage(k) == IF k = 1 THEN "m1" ELSE "m2"
ReplyTo(k) == IF k = 1 THEN "r1" ELSE "r2"

\* chat awaits invoke_async, which runs up to "await self.graph.ainvoke": the
\* conversation is created for an unknown client, the message is appended to
\* the stored list in place, and the graph is started on the stored state.
\* Whether the graph keeps the very list it was given or a copy of it is the
\* library's choice.  Request 2 is the one submitted second.
Submit(k) ==
    /\ requests[k].at = "waiting"
    /\ k = 2 => requests[1].at # "waiting"
    /\ \E copy \in BOOLEAN :
          LET created == stored = None
              heap0 == IF created THEN Append(heap, <<"system">>) ELSE heap
              state0 == IF created
                        THEN [messages |-> Len(heap0), step_count |-> 0]
                        ELSE stored
              heap1 == [heap0 EXCEPT ![state0.messages] =
                                         Append(@, UserMessage(k))]
              heap2 == IF copy THEN Append(heap1, heap1[state0.messages])
                       ELSE heap1
          IN  /\ heap' = heap2
              /\ stored' = state0
              /\ requests' = [requests EXCEPT ![k] =
                    [at |-> "graph",
                     messages |-> IF copy THEN Len(heap2) ELSE state0.messages,
                     step_count |-> state0.step_count,
                     handlers |-> 0]]
    /\ UNCHANGED beside_overlap

\* a node of the graph of request k returns: a new list, the messages the
\* graph holds followed by the reply, and step_count + 1
Handler(k) ==
    /\ requests[k].at = "graph"
    /\ requests[k].handlers < MaxHandlers
    /\ heap' = Append(heap, Append(heap[requests[k].messages], ReplyTo(k)))
    /\ requests' = [requests EXCEPT ![k] =
          [at |-> "graph", messages |-> Len(heap) + 1,
           step_count |-> @.step_count + 1, handlers |-> @.handlers + 1]]
    /\ UNCHANGED stored
    /\ UNCHANGED beside_overlap

\* graph.ainvoke returned: "self.conversation_history[user_id] = result"
Finish(k) ==
    /\ requests[k].at = "graph"
    /\ requests[k].handlers >= 1
    /\ stored' = [messages |-> requests[k].messages,
                  step_count |-> requests[k].step_count]
    /\ requests' = [requests EXCEPT ![k].at = "done"]
    /\ UNCHANGED heap
    /\ UNCHANGED beside_overlap

InitOverlap ==
    /\ Constructed /\ port = "live"
    /\ ChainIdle /\ OverlapIdle /\ FlightIdle /\ FunctionIdle /\ HistoryAndCacheIdle

NextOverlap ==
    \/ \E k \in Requests : Submit(k)
    \/ \E k \in Requests : Handler(k)
    \/ \E k \in Requests : Finish(k)

SpecOverlap == InitOverlap /\ [][NextOverlap]_vars

Transcript == heap[stored.messages]

\* C17: once both requests of the client were answered, the stored transcript
\* holds the message of the first before the message of the second, and
\* step_count counts the handlers that ran in both turns.
C17_TurnsInSequence ==
    (requests[1].at = "done" /\ requests[2].at = "done") =>
        /\ \E i, j \in 1..Len(Transcript) :
              i < j /\ Transcript[i] = "m1" /\ Transcript[j] = "m2"
        /\ stored.step_count = requests[1].handlers + requests[2].handlers

\* ------------------------------------------------------ model calls in flight

\* a handler or a collaborator of client c's turn calls self.llm.invoke: self.llm
\* is the model object get_llm() handed out, and the call takes no permit
LlmInvoke(c) ==
    /\ activity[c] = "idle"
    /\ activity' = [activity EXCEPT ![c] = "llm.invoke"]
    /\ UNCHANGED permits
    /\ UNCHANGED beside_flight

\* that call returns or raises
LlmReturn(c) ==
    /\ activity[c] = "llm.invoke"
    /\ activity' = [activity EXCEPT ![c] = "idle"]
    /\ UNCHANGED permits
    /\ UNCHANGED beside_flight

\* UseLLM.ainvoke, "async with self.semaphore": entered when a permit is free
Ainvoke(c) ==
    /\ activity[c] = "idle"
    /\ permits > 0
    /\ permits' = permits - 1
    /\ activity' = [activity EXCEPT ![c] = "UseLLM.ainvoke"]
    /\ UNCHANGED beside_flight

\* UseLLM.ainvoke leaves the "async with" block
AinvokeReturn(c) ==
    /\ activity[c] = "UseLLM.ainvoke"
    /\ permits' = permits + 1
    /\ activity' = [activity EXCEPT ![c] = "idle"]
    /\ UNCHANGED beside_flight

InitFlight ==
    /\ Constructed /\ port = "live"
    /\ ChainIdle /\ OverlapIdle /\ FlightIdle /\ FunctionIdle /\ HistoryAndCacheIdle

NextFlight ==
    \/ \E c \in Clients : LlmInvoke(c)
    \/ \E c \in Clients : LlmReturn(c)
    \/ \E c \in Clients : Ainvoke(c)
    \/ \E c \in Clients : AinvokeReturn(c)

SpecFlight == InitFlight /\ [][NextFlight]_vars

InFlight == {c \in Clients : activity[c] # "idle"}

\* C18: at most 5 model calls are in flight at any moment, and each of them
\* holds a permit of the semaphore.
C18_CallsHoldPermits ==
    /\ Cardinality(InFlight) <= SemaphorePermits
    /\ Cardinality(InFlight) = SemaphorePermits - permits

\* the Premium Calculator was called and json.loads rejected the model's text
PremiumUnparsed == Len(calls) >= 2 /\ calls[2].response = "text"

\* C21: when the model's text cannot be parsed, the Premium Calculator
\* returns, whatever profile, risk assessment and policy details it was
\* given, the same default: annual_premium 1000, monthly_premium 83.33 and
\* the breakdown 800 / 150 / 50 / 0 (amounts in hundredths).
C21_PremiumFallback ==
    PremiumUnparsed =>
        /\ calls[2].result.annual_premium = 100000
        /\ calls[2].result.monthly_premium = 8333
        /\ calls[2].result.breakdown = Breakdown(80000, 15000, 5000, 0)

\* C21, its case: the Premium Calculator was given a complete profile and
\* the assessment parsed from the model's answer, and its own answer was
\* not parsable
C21_UnparsedAfterAssessment ==
    /\ PremiumUnparsed
    /\ calls[2].who = "premium"
    /\ has_basic_info(calls[2].arguments.user_info)
    /\ calls[2].arguments.risk_assessment = assess_risk("json")

\* ------------------------------------------- coverage amounts in a message

MaxWords == 3
MaxAmount == 2

\* The words of a message: a number; a number written in groups, "n,00,000";
\* one of the unit words; any other word.
Number(n) == [kind |-> "number", n |-> n]
Grouped(n) == [kind |-> "grouped", n |-> n]
Word(w) == [kind |-> w, n |-> 0]
Units == {"lakh", "crore", "million"}
Words ==
    {Number(n) : n \in 1..MaxAmount} \cup {Grouped(n) : n \in 1..MaxAmount}
        \cup {Word(w) : w \in Units \cup {"of"}}

SeqsUpTo(S, n) == UNION {[1..k -> S] : k \in 1..n}
Messages == SeqsUpTo(Words, MaxWords)

\* "lakh" in message_lower
Mentions(message, unit) == \E i \in 1..Len(message) : message[i].kind = unit

\* the digits a word ends with, which (\d+) takes when the unit follows
EndDigits(word) == IF word.kind = "number" THEN word.n ELSE 0

Least(S) == CHOOSE i \in S : \A j \in S : i <= j

\* re.search(r'(\d+)\s*unit', message_lower): group 1 of the leftmost match,
\* as a sequence that is empty when nothing matches
BeforeUnit(message, unit) ==
    LET at_ == {i \in 1..(Len(message) - 1) :
                  /\ message[i].kind \in {"number", "grouped"}
                  /\ message[i + 1].kind = unit}
    IN  IF at_ = {} THEN <<>> ELSE <<EndDigits(message[Least(at_)])>>

\* re.search(r'(\d+),\d+,\d+', message_lower): group 1 of the leftmost match
LeadOfGrouped(message) ==
    LET at_ == {i \in 1..Len(message) : message[i].kind = "grouped"}
    IN  IF at_ = {} THEN <<>> ELSE <<message[Least(at_)].n>>

\* coverage_patterns, in the order of the list
coverage_patterns(message) ==
    << BeforeUnit(message, "lakh"), LeadOfGrouped(message),
       BeforeUnit(message, "million"), BeforeUnit(message, "crore") >>

\* the if / elif chain on the unit words the message contains
Scaled(amount, message) ==
    IF Mentions(message, "lakh") THEN amount * 100000
    ELSE IF Mentions(message, "crore") THEN amount * 10000000
    ELSE IF Mentions(message, "million") THEN amount * 1000000
    ELSE amount

\* "for pattern in coverage_patterns": every pattern that matches assigns
\* policy_details["coverage_amount"], so the last one that matches decides
RECURSIVE AfterPatterns(_, _, _, _)
AfterPatterns(amounts, k, message, coverage) ==
    IF k > Len(amounts) THEN coverage
    ELSE AfterPatterns(amounts, k + 1, message,
                       IF amounts[k] = <<>> THEN coverage
                       ELSE <<Scaled(amounts[k][1], message)>>)

\* collect_info, "Check for coverage amount", for policy_details without one:
\* the amount stored, or the empty sequence when none is
coverage_amount(message) ==
    AfterPatterns(coverage_patterns(message), 1, message, <<>>)

InitCoverage ==
    /\ Constructed /\ port = "live"
    /\ ChainIdle /\ OverlapIdle /\ FlightIdle /\ HistoryAndCacheIdle
    /\ given \in Messages
    /\ computed = None

\* collect_info reads the coverage amount from the user's message
ReadCoverage ==
    /\ computed = None
    /\ computed' = [coverage_amount |-> coverage_amount(given)]
    /\ UNCHANGED given
    /\ UNCHANGED beside_function

NextCoverage == ReadCoverage

SpecCoverage == InitCoverage /\ [][NextCoverage]_vars

Multiplier(unit) ==
    CASE unit = "lakh" -> 100000
      [] unit = "crore" -> 10000000
      [] unit = "million" -> 1000000

\* the places of the message where a number is followed by a unit word
Suffixed(message) ==
    {i \in 1..(Len(message) - 1) :
        message[i].kind = "number" /\ message[i + 1].kind \in Units}

\* C22: a message in which one number n is followed by a unit word gives
\* coverage_amount n times that unit (lakh 100000, crore 10000000, million
\* 1000000), also when another unit word stands elsewhere in the message.
C22_UnitAfterNumber ==
    (computed # None /\ Cardinality(Suffixed(given)) = 1) =>
        LET i == Least(Suffixed(given))
        IN  LeadOfGrouped(given) = <<>> =>
              computed.coverage_amount =
                  <<given[i].n * Multiplier(given[i + 1].kind)>>

\* the step in which invoke returns to its caller after the graph ran
TurnEnds == pc \in {"ended", "raised"} /\ pc' = "idle"

\* C23: a turn that starts in stage followup returns stage completed when
\* the user's message contains closing language, and stage followup when it
\* contains none and is no recommendation request.
C23_ClosingCompletes ==
    [][(TurnEnds /\ conv.conversation_stage = "followup") =>
          IF HasClosing(conv.last_human)
          THEN ret'.conversation_stage = "completed"
          ELSE ~IsRecommendationRequest(conv.last_human) =>
                  ret'.conversation_stage = "followup"]_vars

\* a turn's graph was started and no handler of it ran yet, in a conversation
\* that had stage completed in an earlier turn and still holds the required
\* attributes and both preferences
StartsAfterCompleted ==
    /\ pc = "graph" /\ ran.node = "none"
    /\ was_completed
    /\ has_basic_info(g.user_info) /\ has_policy_info(g.policy_details)

\* C24: a turn that starts after the conversation reached completed, the
\* required information being present, is handled by the followup handler:
\* the handler that runs is followup, not greeting, collecting_info or
\* policy_selection, and user_info, policy_details and recommendation_result
\* are as they were.
C24_ReentersFollowup ==
    [][StartsAfterCompleted =>
          /\ ran'.node = "followup"
          /\ g'.user_info = g.user_info
          /\ g'.policy_details = g.policy_details
          /\ g'.recommendation_result = g.recommendation_result]_vars

\* ----------------------------- one handler applied to one conversation state

\* What the last message may be: the user's texts and an unqualified yes
StepTexts == UserTexts \cup {"yes"}

\* The states a handler may be given: any of the required attributes present,
\* any of the two preferences, with or without an earlier result.
Profiles ==
    {[k \in ProfileKeys |-> IF k \in K THEN "set" ELSE Absent] :
        K \in SUBSET RequiredFields}
Preferences ==
    {[k \in PolicyKeys |-> IF k \in K THEN "set" ELSE Absent] :
        K \in SUBSET {"policy_type", "coverage_amount"}}
EarlierResults == {None, PolicyAgentInvoke(PlainChain)}
HandlerStates ==
    {[n_messages |-> 3, last_message |-> m, last_human |-> m, n_human |-> 1,
      user_info |-> u, policy_details |-> p, recommendation_result |-> r,
      conversation_stage |-> s, step_count |-> 2] :
        m \in StepTexts, u \in Profiles, p \in Preferences,
        r \in EarlierResults, s \in Stages \ {"completed"}}

\* the JSON blocks the model may put into its reply
StepInfoBlocks ==
    Blocks(ProfileKeys, InfoObjects \cup {Extracted({"age"}, "thirty")})
StepPolicyBlocks == Blocks(PolicyKeys, PolicyObjects)
StepChains == {PlainChain, Chain(Fail, NotCalled, NoResponse(NotCalled))}

Applied(node, asked, state) ==
    [node |-> node, asked |-> asked, state |-> state]

ApplyGreeting ==
    /\ computed = None
    /\ computed' = Applied("greeting", greeting_asks(given.user_info),
                           greeting(given, PlainReply))
    /\ UNCHANGED given
    /\ UNCHANGED beside_function

ApplyCollectInfo ==
    /\ computed = None
    /\ \E block \in StepInfoBlocks :
          computed' = Applied("collecting_info",
                              collect_info_asks(given.user_info),
                              collect_info(given, PlainReply, block))
                          @@ [block |-> block]
    /\ UNCHANGED given
    /\ UNCHANGED beside_function

ApplyPolicySelection ==
    /\ computed = None
    /\ \E block \in StepPolicyBlocks :
          computed' = Applied("policy_selection", {},
                              policy_selection(given, PlainReply, block))
                          @@ [block |-> block]
    /\ UNCHANGED given
    /\ UNCHANGED beside_function

ApplyGetRecommendation ==
    /\ computed = None
    /\ \E chain \in StepChains :
          computed' = Applied("recommendation", {},
                              get_recommendation(given, chain, PlainReply,
                                                 PlainReply))
    /\ UNCHANGED given
    /\ UNCHANGED beside_function

ApplyFollowup ==
    /\ computed = None
    /\ computed' = Applied("followup", {}, followup(given, PlainReply))
    /\ UNCHANGED given
    /\ UNCHANGED beside_function

\* invoke merges the onboarding form of a later message into the stored state
ApplyFrontendDetails ==
    /\ computed = None
    /\ \E d \in Details \ {"none"} :
          computed' = Applied("invoke", {},
                              _incorporate_frontend_details(given, d))
    /\ UNCHANGED given
    /\ UNCHANGED beside_function

InitStep ==
    /\ Constructed /\ port = "live"
    /\ ChainIdle /\ OverlapIdle /\ FlightIdle /\ HistoryAndCacheIdle
    /\ given \in HandlerStates
    /\ computed = None

NextStep ==
    \/ ApplyGreeting
    \/ ApplyCollectInfo
    \/ ApplyPolicySelection
    \/ ApplyGetRecommendation
    \/ ApplyFollowup
    \/ ApplyFrontendDetails

SpecStep == InitStep /\ [][NextStep]_vars

Present(user_info) == {k \in RequiredFields : user_info[k] # Absent}

\* C25: the fields greeting and collect_info list as missing are none of the
\* keys user_info holds, the list is empty for a complete profile, and a
\* required attribute user_info holds is still held after any handler or the
\* merge of a form.
C25_AsksOnlyMissing ==
    computed # None =>
        /\ computed.asked \cap Present(given.user_info) = {}
        /\ has_basic_info(given.user_info) => computed.asked = {}
        /\ Present(given.user_info) \subseteq Present(computed.state.user_info)

\* C25, its case: collect_info ran on a profile that holds some of the
\* required attributes and listed the others
C25_AskedForTheRest ==
    /\ computed # None
    /\ computed.node = "collecting_info"
    /\ Present(given.user_info) = {"age", "gender"}
    /\ computed.asked = {"smoking", "health"}

\* C26: when collect_info merges the attributes of the model's block into
\* user_info, a key user_info held before keeps its value; only keys that
\* were absent are added.
C26_MergeKeepsValues ==
    (computed # None /\ computed.node = "collecting_info") =>
        \A k \in ProfileKeys :
            given.user_info[k] # Absent =>
                computed.state.user_info[k] = given.user_info[k]

\* C27: when policy_selection is given an unqualified affirmative while
\* policy_type or coverage_amount is missing, policy_details holds
\* policy_type Term Life and a coverage amount afterwards.
C27_AffirmativeDefaults ==
    (/\ computed # None /\ computed.node = "policy_selection"
     /\ given.last_message = "yes"
     /\ ~has_policy_info(given.policy_details)) =>
        /\ has_policy_info(computed.state.policy_details)
        /\ computed.state.policy_details["policy_type"] = "Term Life"

\* C29: greeting, collect_info, policy_selection and followup return the
\* recommendation_result they were given, and followup also returns the
\* user_info and policy_details it was given.
C29_ResultOnlyByRecommendation ==
    computed # None =>
        /\ computed.node \in {"greeting", "collecting_info",
                              "policy_selection", "followup"} =>
              computed.state.recommendation_result =
                  given.recommendation_result
        /\ computed.node = "followup" =>
              /\ computed.state.user_info = given.user_info
              /\ computed.state.policy_details = given.policy_details

\* C29, its case: followup ran on a conversation that holds a recommendation
\* and the user took leave
C29_FollowupWithResult ==
    /\ computed # None
    /\ computed.node = "followup"
    /\ given.recommendation_result # None
    /\ HasClosing(given.last_message)
    /\ has_basic_info(given.user_info)

\* a handler was applied and the block of the model's reply was not parsable
ExtractionFailed ==
    /\ computed # None
    /\ computed.node \in {"collecting_info", "policy_selection"}
    /\ computed.block.kind = "invalid"

C28_RequestGivesRecommendation ==
    [][(/\ TurnEnds /\ turn > 2
        /\ has_basic_info(conv.user_info)
        /\ has_policy_info(conv.policy_details)
        /\ IsRecommendationRequest(conv.last_human)
        /\ ~rec_failed /\ ran.outcome # "raised") =>
          /\ conv'.recommendation_result # None
          /\ ret'.conversation_stage = "followup"]_vars

\* C31: when collect_info returned a profile with gender, smoking status and
\* health present and an age that cannot be converted to a number, the
\* router's decision on that state is collecting_info.
C31_NonNumericAgeStays ==
    (/\ pc = "graph" /\ ran = Ran("collecting_info", "ok")
     /\ has_basic_info(g.user_info)
     /\ ~AgeIsNumeric(g.user_info["age"])) =>
        route = "collecting_info"

\* ------------------------------------------------- the specialists' histories
\* Recommendation cycles of several clients, one after the other, each run by
\* get_recommendation on the user_info of the client's conversation.

\* The user_info get_recommendation passes for a client: the dict of the
\* conversation, whose keys are written by collect_info and by
\* _incorporate_frontend_details only.
ConversationProfile(client) == Extracted(RequiredFields, "set")

\* "user_id = user_info.get('user_id', 'unknown')"
history_key(user_info) ==
    IF "user_id" \in DOMAIN user_info /\ user_info["user_id"] # Absent
    THEN user_info["user_id"] ELSE "unknown"

Stored(history, key, entry) ==
    [history EXCEPT ![key] = Append(@, entry)]

Last(s, n) == IF Len(s) > n THEN SubSeq(s, Len(s) - n + 1, Len(s)) ELSE s

\* _update_user_history: append, then keep the last five
_update_user_history(history, key, entry) ==
    [history EXCEPT ![key] = Last(Append(@, entry), HistoryCap)]

\* get_recommendation calls self.policy_agent.invoke for a client
StartCycle ==
    /\ cycle.at = "idle" /\ cycles < MaxCycles
    /\ \E client \in HistoryUsers :
          cycle' = [n |-> cycles + 1, client |-> client, at |-> "risk"]
    /\ cycles' = cycles + 1
    /\ UNCHANGED <<risk_history, premium_history, recommendation_history>>
    /\ UNCHANGED beside_history

\* RiskAssessmentAgent.invoke: its graph raises, or the assessment is
\* appended to the history of the key and returned
RiskStep ==
    /\ cycle.at = "risk"
    /\ \E raised \in BOOLEAN :
          IF raised
          THEN cycle' = NoCycle /\ UNCHANGED risk_history
          ELSE /\ risk_history' =
                     Stored(risk_history,
                            history_key(ConversationProfile(cycle.client)),
                            cycle.n)
               /\ cycle' = [cycle EXCEPT !.at = "premium"]
    /\ UNCHANGED <<premium_history, recommendation_history, cycles>>
    /\ UNCHANGED beside_history

\* PremiumCalculationAgent.invoke
PremiumStep ==
    /\ cycle.at = "premium"
    /\ \E raised \in BOOLEAN :
          IF raised
          THEN cycle' = NoCycle /\ UNCHANGED premium_history
          ELSE /\ premium_history' =
                     Stored(premium_history,
                            history_key(ConversationProfile(cycle.client)),
                            cycle.n)
               /\ cycle' = [cycle EXCEPT !.at = "recommender"]
    /\ UNCHANGED <<risk_history, recommendation_history, cycles>>
    /\ UNCHANGED beside_history

\* PolicyRecommendationAgent.invoke after the two calls: its graph raises, or
\* the recommendation is recorded and the result returned
RecommendStep ==
    /\ cycle.at = "recommender"
    /\ \E raised \in BOOLEAN :
          IF raised
          THEN UNCHANGED recommendation_history
          ELSE recommendation_history' =
                  _update_user_history(recommendation_history,
                      history_key(ConversationProfile(cycle.client)), cycle.n)
    /\ cycle' = NoCycle
    /\ UNCHANGED <<risk_history, premium_history, cycles>>
    /\ UNCHANGED beside_history

InitHistory ==
    /\ Constructed /\ port = "live"
    /\ Idle

NextHistory ==
    \/ StartCycle
    \/ RiskStep
    \/ PremiumStep
    \/ RecommendStep

SpecHistory == InitHistory /\ [][NextHistory]_vars

\* C32: for every key, each of the three histories holds at most HistoryCap
\* entries, and they are the most recent ones in the order they were made.
C32_HistoriesCapped ==
    \A k \in HistoryKeys :
        \A history \in {risk_history, premium_history, recommendation_history} :
            /\ Len(history[k]) <= HistoryCap
            /\ \A i \in 1..(Len(history[k]) - 1) :
                  history[k][i] < history[k][i + 1]

\* C33: a step of a cycle run for one client leaves the three histories kept
\* for every other client as they were.
C33_HistoriesPerClient ==
    [][\A b \in HistoryUsers :
          (cycle.at # "idle" /\ b # cycle.client) =>
             LET key == history_key(ConversationProfile(b))
             IN  /\ risk_history'[key] = risk_history[key]
                 /\ premium_history'[key] = premium_history[key]
                 /\ recommendation_history'[key] = recommendation_history[key]
      ]_vars

\* C34: whenever the followup handler is about to run, and whenever a turn
\* has returned stage followup, the recommendation_result of the state is
\* not null.
C34_FollowupHasResult ==
    /\ (pc = "graph" /\ next_node = "followup") =>
           g.recommendation_result # None
    /\ (pc = "idle" /\ ret.conversation_stage = "followup") =>
           conv.recommendation_result # None

\* C35: when collect_info or policy_selection returned stage recommendation,
\* the handler the router dispatches next is the recommendation handler.
C35_RecommendationDispatched ==
    (/\ pc = "graph"
     /\ ran.node \in {"collecting_info", "policy_selection"}
     /\ ran.outcome = "ok"
     /\ g.conversation_stage = "recommendation") =>
        next_node = "recommendation"

\* C36: when a turn has ended, the transcript stored for the client holds
\* one user message for each turn taken, whether the turn ended in the graph,
\* in the first-turn greeting or in a fallback.
C36_MessageAppendedOnce ==
    (pc = "idle" /\ turn > 0) => conv.n_human = turn

\* C37: when a turn has returned, on the graph's path, the first-turn
\* greeting or either fallback, the stage returned is the stage stored for
\* the client and the reply returned is the last message of the stored
\* transcript.
C37_ReturnMatchesStore ==
    (pc = "idle" /\ ret.path \in {"graph", "first_greeting", "contextual", "default"}) =>
        /\ ret.conversation_stage = conv.conversation_stage
        /\ ret.response = conv.last_message

\* C38: merging an onboarding form into a stored state leaves a policy_type
\* that the state already holds as it is.
C38_FormKeepsPolicyType ==
    (/\ computed # None /\ computed.node = "invoke"
     /\ given.policy_details["policy_type"] # Absent) =>
        computed.state.policy_details["policy_type"] =
            given.policy_details["policy_type"]

\* ------------------------------------------- the recommender's alternatives
\* recommend_policy applied to one answer of the model, the entries of
\* alternative_policies kept as their names.

\* Entries of alternative_policies in one answer of the model.
MaxAlternatives == 2

AlternativeAnswers ==
    {[kind |-> r.kind, name |-> r.name, additional_notes |-> r.additional_notes,
      alternative_policies |-> a] :
        r \in RecommenderResponses,
        a \in SeqsUpTo(RecommenderNames, MaxAlternatives)}

\* recommend_policy, the alternative_policies of what it returns: those of
\* the parsed object, which the validation does not read, or the one entry of
\* the default recommendation
alternative_policies(response) ==
    IF response.kind = "json"
    THEN response.alternative_policies
    ELSE <<AVAILABLE_POLICIES[3].name>>

InitAlternatives ==
    /\ Constructed /\ port = "live"
    /\ ChainIdle /\ OverlapIdle /\ FlightIdle /\ HistoryAndCacheIdle
    /\ given \in AlternativeAnswers
    /\ computed = None

ApplyRecommendPolicy ==
    /\ computed = None
    /\ computed' = [recommended_policy |-> recommend_policy(given),
                    alternative_policies |-> alternative_policies(given)]
    /\ UNCHANGED given
    /\ UNCHANGED beside_function

NextAlternatives == ApplyRecommendPolicy

SpecAlternatives == InitAlternatives /\ [][NextAlternatives]_vars

\* C39: every name in the alternative_policies of a recommendation is the
\* name of a catalogue entry.
C39_AlternativesInCatalogue ==
    computed # None =>
        \A i \in DOMAIN computed.alternative_policies :
            computed.alternative_policies[i] \in CatalogueNames

\* ------------------------------------------------------- the response cache
\* get and put on one LRUCache, in any order.  time.time() is read once in
\* every operation that records a time; two readings closer than the clock's
\* resolution are equal.

Readings == {now, now + 1}

Recorded(times, key) == \E i \in 1..Len(times) : times[i].key = key
TimeOf(times, key) ==
    times[CHOOSE i \in 1..Len(times) : times[i].key = key].time

\* "self.access_times[key] = time.time()": a key already in the dict keeps
\* its place, a new one goes last
Timed(times, key, t) ==
    IF Recorded(times, key)
    THEN [i \in 1..Len(times) |->
             IF times[i].key = key THEN [key |-> key, time |-> t] ELSE times[i]]
    ELSE Append(times, [key |-> key, time |-> t])

\* "del self.access_times[oldest_key]"
Deleted(times, key) == SelectSeq(times, LAMBDA e : e.key # key)

\* Faulty variant of oldest_key: the key with the greatest time is taken
newest_key(times) ==
    LET i == CHOOSE i \in 1..Len(times) :
                 \A j \in 1..Len(times) : times[j].time <= times[i].time
    IN  times[i].key

\* "min(self.access_times.items(), key=lambda x: x[1])[0]": the first item,
\* in the dict's order, among those of the least time
oldest_key(times) ==
    LET i == CHOOSE i \in 1..Len(times) :
                 /\ \A j \in 1..Len(times) : times[i].time <= times[j].time
                 /\ \A j \in 1..(i - 1) : times[j].time > times[i].time
    IN  times[i].key

\* the order of use after key was used
Used(order, key) == Append(SelectSeq(order, LAMBDA k : k # key), key)

\* LRUCache.get
CacheGet(key) ==
    /\ ops < MaxOps
    /\ IF key \in cache
       THEN /\ \E t \in Readings :
                  /\ now' = t
                  /\ access_times' = Timed(access_times, key, t)
            /\ used' = Used(used, key)
       ELSE UNCHANGED <<now, access_times, used>>
    /\ done' = NothingDone
    /\ ops' = ops + 1
    /\ UNCHANGED cache
    /\ UNCHANGED beside_cache

\* LRUCache.put
CachePut(key) ==
    /\ ops < MaxOps
    /\ LET full == Cardinality(cache) >= max_size /\ key \notin cache
           victim == oldest_key(access_times)
       IN  /\ cache' = (IF full THEN cache \ {victim} ELSE cache) \cup {key}
           /\ \E t \in Readings :
                 /\ now' = t
                 /\ access_times' =
                       Timed(IF full THEN Deleted(access_times, victim)
                             ELSE access_times, key, t)
           /\ used' = Used(IF full
                           THEN SelectSeq(used, LAMBDA k : k # victim)
                           ELSE used, key)
           /\ done' = IF full
                      THEN [evicted |-> <<victim>>,
                            least_recent |-> <<Head(used)>>]
                      ELSE NothingDone
    /\ ops' = ops + 1
    /\ UNCHANGED beside_cache

InitCache ==
    /\ Constructed /\ port = "live"
    /\ Idle

NextCache ==
    \/ \E key \in CacheKeys : CacheGet(key)
    \/ \E key \in CacheKeys : CachePut(key)

SpecCache == InitCache /\ [][NextCache]_vars

TimedKeys == {access_times[i].key : i \in 1..Len(access_times)}

\* the keys a step removes from the cache
Evicted == cache \ cache'

\* the cache holds at most max_size entries and the cached keys are the keys
\* with an access time
CacheBounded ==
    /\ Cardinality(cache) <= max_size
    /\ cache = TimedKeys
    /\ Len(access_times) = Cardinality(cache)

\* a step removes a key only from a full cache, and one key only
EvictsWhenFull ==
    /\ Cardinality(Evicted) <= 1
    /\ \A v \in Evicted :
          Cardinality(cache) = max_size /\ Cardinality(cache') = max_size

\* the first key, in the order the keys were first put, among those of the
\* least recorded time
FirstOfLeastTime(times) ==
    LET least == {i \in 1..Len(times) :
                     \A j \in 1..Len(times) : times[i].time <= times[j].time}
    IN  times[CHOOSE i \in least : \A j \in least : i <= j].key

====
